---- MODULE Spec2Model ----
(***************************************************************************)
(* A model of the workerpool crate: WorkerPool::new, WorkerPool::execute,  *)
(* the loop of each Worker thread, and the three callers the crate ships   *)
(* (a free submitter, the Barrier example and the channel example).        *)
(***************************************************************************)
EXTENDS Integers, Sequences, FiniteSets, TLC

\* Bounds of the model.
MaxSize == 3
MaxJobs == 3

WorkerIds == 0 .. (MaxSize - 1)
JobIds == 1 .. MaxJobs
\* The submitting thread, numbered after the workers (a barrier participant).
Main == MaxSize
Threads == WorkerIds \cup {Main}

Scenarios == {"free", "barrier", "channel"}
FreeKinds == {"plain", "panic", "block"}

VARIABLES
    size,          \* the argument of WorkerPool::new
    scenario,      \* which caller drives the pool
    njobs,         \* n_jobs of the caller
    mainpc,        \* position of the submitting thread
    workers,       \* WorkerPool.workers: the ids, in push order
    sender,        \* TRUE while WorkerPool.sender (the only Sender) exists
    recHolders,    \* threads holding an Arc of the Mutex<Receiver>
    queue,         \* the mpsc channel's buffered jobs (job ids)
    kind,          \* what the body of each submitted job does
    nsub,          \* number of jobs sent so far
    guards,        \* workers holding a MutexGuard of the receiver
    poisoned,      \* the Mutex's poison flag
    wpc,           \* position of each worker thread
    cur,           \* the job a worker has received (0: none)
    deqlog,        \* history: jobs in the order recv returned them
    invoked,       \* history: number of times each job body was called
    counter,       \* the caller's AtomicUsize
    barrierCount,  \* threads waiting in the caller's Barrier
    barrierGen,    \* generation of the caller's Barrier
    bgen,          \* generation each blocked thread saw on arrival
    chan,          \* the caller's own mpsc channel
    sum,           \* the caller's fold accumulator
    received       \* items the caller's take(n_jobs) has yielded

vars == <<size, scenario, njobs, mainpc, workers, sender, recHolders, queue,
          kind, nsub, guards, poisoned, wpc, cur, deqlog, invoked, counter,
          barrierCount, barrierGen, bgen, chan, sum, received>>

poolVars == <<workers, sender>>
callerVars == <<counter, barrierCount, barrierGen, bgen, chan, sum, received>>
jobVars == <<kind, nsub>>
constVars == <<size, scenario, njobs>>

\* The receiver lives as long as some Arc of it does.
ReceiverAlive == recHolders # {}

\* Dropping the last Arc drops the Receiver, which discards what is buffered.
QueueAfter(holders, q) == IF holders = {} THEN <<>> ELSE q

\* Display for Worker.
WorkerToString(id) == "(id: " \o ToString(id) \o ")"

\* Display for WorkerPool.
RECURSIVE Buffer(_)
Buffer(ws) ==
    IF ws = <<>> THEN "" ELSE WorkerToString(Head(ws)) \o Buffer(Tail(ws))

PoolToString(ws) == "workers[] = " \o Buffer(ws)

\* State at the entry of the for loop of WorkerPool::new: the channel and the
\* first Arc exist, no worker does.
Init ==
    /\ size \in 0 .. MaxSize
    /\ scenario \in Scenarios
    /\ njobs \in 0 .. MaxJobs
    /\ scenario = "free" => njobs = MaxJobs
    /\ mainpc = "new"
    /\ workers = <<>>
    /\ sender = TRUE
    /\ recHolders = {Main}
    /\ queue = <<>>
    /\ kind = [j \in JobIds |-> "none"]
    /\ nsub = 0
    /\ guards = {}
    /\ poisoned = FALSE
    /\ wpc = [w \in WorkerIds |-> "unborn"]
    /\ cur = [w \in WorkerIds |-> 0]
    /\ deqlog = <<>>
    /\ invoked = [j \in JobIds |-> 0]
    /\ counter = 0
    /\ barrierCount = 0
    /\ barrierGen = 0
    /\ bgen = [t \in Threads |-> 0]
    /\ chan = <<>>
    /\ sum = 0
    /\ received = 0

----------------------------------------------------------------------------
\* WorkerPool::new

\* The id the next Worker::new call is given.
NextId == Len(workers)

\* Mutant of NewPush: the new worker is inserted at the front of the Vec.
NewPushFront ==
    /\ mainpc = "new"
    /\ Len(workers) < size
    /\ workers' = <<NextId>> \o workers
    /\ recHolders' = recHolders \cup {NextId}
    /\ wpc' = [wpc EXCEPT ![NextId] = "lock"]
    /\ UNCHANGED <<constVars, mainpc, sender, queue, jobVars, guards, poisoned,
                   cur, deqlog, invoked, callerVars>>

\* One iteration of the loop: Worker::new(id, Arc::clone(&rec)) spawns the
\* thread, which owns the clone, and the worker is pushed.
NewPush ==
    /\ mainpc = "new"
    /\ Len(workers) < size
    /\ workers' = Append(workers, NextId)
    /\ recHolders' = recHolders \cup {NextId}
    /\ wpc' = [wpc EXCEPT ![NextId] = "lock"]
    /\ UNCHANGED <<constVars, mainpc, sender, queue, jobVars, guards, poisoned,
                   cur, deqlog, invoked, callerVars>>

\* The loop is over: the pool is returned and the local `rec` is dropped.
NewReturn ==
    /\ mainpc = "new"
    /\ Len(workers) = size
    /\ mainpc' = "submit"
    /\ recHolders' = recHolders \ {Main}
    /\ queue' = QueueAfter(recHolders', queue)
    /\ UNCHANGED <<constVars, poolVars, jobVars, guards, poisoned, wpc, cur,
                   deqlog, invoked, callerVars>>

----------------------------------------------------------------------------
\* WorkerPool::execute and the pool's end

\* The kinds of job the caller submits.
KindsOf(s) ==
    CASE s = "free" -> FreeKinds
      [] s = "barrier" -> {"barrier"}
      [] s = "channel" -> {"chan"}

\* Mutant of Execute: a channel of capacity one, and a send that gives up
\* (try_send(job).ok()) when it is full.
ExecuteLossy(k) ==
    /\ mainpc = "submit"
    /\ nsub < njobs
    /\ k \in KindsOf(scenario)
    /\ IF ReceiverAlive
       THEN /\ queue' = IF queue = <<>> THEN <<nsub + 1>> ELSE queue
            /\ kind' = [kind EXCEPT ![nsub + 1] = k]
            /\ nsub' = nsub + 1
            /\ UNCHANGED <<mainpc, poolVars>>
       ELSE /\ mainpc' = "sendfailed"
            /\ sender' = FALSE
            /\ workers' = <<>>
            /\ UNCHANGED <<queue, jobVars>>
    /\ UNCHANGED <<constVars, recHolders, guards, poisoned, wpc, cur, deqlog,
                   invoked, callerVars>>

\* execute(f): send the job; a send to a dropped receiver fails and the
\* expect panics, which unwinds the caller and drops the pool.
Execute(k) ==
    /\ mainpc = "submit"
    /\ nsub < njobs
    /\ k \in KindsOf(scenario)
    /\ IF ReceiverAlive
       THEN /\ queue' = Append(queue, nsub + 1)
            /\ kind' = [kind EXCEPT ![nsub + 1] = k]
            /\ nsub' = nsub + 1
            /\ UNCHANGED <<mainpc, poolVars>>
       ELSE /\ mainpc' = "sendfailed"
            /\ sender' = FALSE
            /\ workers' = <<>>
            /\ UNCHANGED <<queue, jobVars>>
    /\ UNCHANGED <<constVars, recHolders, guards, poisoned, wpc, cur, deqlog,
                   invoked, callerVars>>

\* The pool goes out of scope: the Sender and the Vec of (detached) workers
\* are dropped; the threads keep running.
DropPool ==
    /\ mainpc = "submit"
    /\ scenario = "free"
    /\ mainpc' = "dropped"
    /\ sender' = FALSE
    /\ workers' = <<>>
    /\ UNCHANGED <<constVars, recHolders, queue, jobVars, guards, poisoned,
                   wpc, cur, deqlog, invoked, callerVars>>

----------------------------------------------------------------------------
\* The thread of Worker::new: loop { let job = match lock().expect().recv()
\* { Ok(data) => data, Err(_) => continue }; job(); }

\* A panic unwinds the thread: its Arc is dropped, and a guard it still holds
\* is dropped while panicking, which poisons the Mutex.
Unwind(w) ==
    /\ wpc' = [wpc EXCEPT ![w] = "dead"]
    /\ cur' = [cur EXCEPT ![w] = 0]
    /\ recHolders' = recHolders \ {w}
    /\ guards' = guards \ {w}
    /\ poisoned' = (poisoned \/ w \in guards)
    /\ queue' = QueueAfter(recHolders', queue)

\* Mutant of Lock: a shared lock (RwLock::read), which does not exclude the
\* other workers.
LockShared(w) ==
    /\ wpc[w] = "lock"
    /\ IF poisoned
       THEN Unwind(w)
       ELSE /\ guards' = guards \cup {w}
            /\ wpc' = [wpc EXCEPT ![w] = "recv"]
            /\ UNCHANGED <<cur, recHolders, poisoned, queue>>
    /\ UNCHANGED <<constVars, mainpc, poolVars, jobVars, deqlog, invoked,
                   callerVars>>

\* handle.lock().expect("Cant acquire lock"): blocks while another thread
\* holds the guard; a poisoned Mutex makes the expect panic.
Lock(w) ==
    /\ wpc[w] = "lock"
    /\ guards = {}
    /\ IF poisoned
       THEN Unwind(w)
       ELSE /\ guards' = {w}
            /\ wpc' = [wpc EXCEPT ![w] = "recv"]
            /\ UNCHANGED <<cur, recHolders, poisoned, queue>>
    /\ UNCHANGED <<constVars, mainpc, poolVars, jobVars, deqlog, invoked,
                   callerVars>>

\* Mutant of RecvOk: the job is read but left in the queue.
RecvOkPeek(w) ==
    /\ wpc[w] = "recv"
    /\ queue # <<>>
    /\ cur' = [cur EXCEPT ![w] = Head(queue)]
    /\ queue' = queue
    /\ deqlog' = Append(deqlog, Head(queue))
    /\ guards' = guards \ {w}
    /\ wpc' = [wpc EXCEPT ![w] = "run"]
    /\ UNCHANGED <<constVars, mainpc, poolVars, recHolders, jobVars, poisoned,
                   invoked, callerVars>>

\* Mutant of RecvOk: the newest job is taken instead of the oldest.
RecvOkLifo(w) ==
    /\ wpc[w] = "recv"
    /\ queue # <<>>
    /\ cur' = [cur EXCEPT ![w] = queue[Len(queue)]]
    /\ queue' = SubSeq(queue, 1, Len(queue) - 1)
    /\ deqlog' = Append(deqlog, queue[Len(queue)])
    /\ guards' = guards \ {w}
    /\ wpc' = [wpc EXCEPT ![w] = "run"]
    /\ UNCHANGED <<constVars, mainpc, poolVars, recHolders, jobVars, poisoned,
                   invoked, callerVars>>

\* Mutant of RecvOk: the guard outlives the let statement, so the worker
\* still holds it while the job runs.
RecvOkHoldGuard(w) ==
    /\ wpc[w] = "recv"
    /\ queue # <<>>
    /\ cur' = [cur EXCEPT ![w] = Head(queue)]
    /\ queue' = Tail(queue)
    /\ deqlog' = Append(deqlog, Head(queue))
    /\ guards' = guards
    /\ wpc' = [wpc EXCEPT ![w] = "run"]
    /\ UNCHANGED <<constVars, mainpc, poolVars, recHolders, jobVars, poisoned,
                   invoked, callerVars>>

\* Mutant of RecvOk: the job is handed to a thread of its own
\* (thread::spawn(job)) and the worker goes straight back to the lock.
RecvOkDetach(w) ==
    /\ wpc[w] = "recv"
    /\ queue # <<>>
    /\ queue' = Tail(queue)
    /\ deqlog' = Append(deqlog, Head(queue))
    /\ guards' = guards \ {w}
    /\ wpc' = [wpc EXCEPT ![w] = "lock"]
    /\ UNCHANGED <<constVars, mainpc, poolVars, recHolders, jobVars, poisoned,
                   cur, invoked, callerVars>>

\* recv() returns Ok(data): the head of the queue is removed, and the guard,
\* a temporary of the let statement, is dropped before job() is called.
RecvOk(w) ==
    /\ wpc[w] = "recv"
    /\ queue # <<>>
    /\ cur' = [cur EXCEPT ![w] = Head(queue)]
    /\ queue' = Tail(queue)
    /\ deqlog' = Append(deqlog, Head(queue))
    /\ guards' = guards \ {w}
    /\ wpc' = [wpc EXCEPT ![w] = "run"]
    /\ UNCHANGED <<constVars, mainpc, poolVars, recHolders, jobVars, poisoned,
                   invoked, callerVars>>

\* Mutant of RecvErr: the loop is left on Err (break), and the thread ends.
RecvErrExit(w) ==
    /\ wpc[w] = "recv"
    /\ queue = <<>>
    /\ ~sender
    /\ guards' = guards \ {w}
    /\ wpc' = [wpc EXCEPT ![w] = "dead"]
    /\ recHolders' = recHolders \ {w}
    /\ UNCHANGED <<constVars, mainpc, poolVars, queue, jobVars, poisoned, cur,
                   deqlog, invoked, callerVars>>

\* Mutant of RecvErr: recv reports the disconnection as soon as the Sender
\* is gone, whatever is still buffered.
RecvErrEarly(w) ==
    /\ wpc[w] = "recv"
    /\ ~sender
    /\ guards' = guards \ {w}
    /\ wpc' = [wpc EXCEPT ![w] = "lock"]
    /\ UNCHANGED <<constVars, mainpc, poolVars, recHolders, queue, jobVars,
                   poisoned, cur, deqlog, invoked, callerVars>>

\* recv() returns Err: the queue is empty and the Sender is gone. The loop
\* continues: the guard is dropped and the thread locks again.
RecvErr(w) ==
    /\ wpc[w] = "recv"
    /\ queue = <<>>
    /\ ~sender
    /\ guards' = guards \ {w}
    /\ wpc' = [wpc EXCEPT ![w] = "lock"]
    /\ UNCHANGED <<constVars, mainpc, poolVars, recHolders, queue, jobVars,
                   poisoned, cur, deqlog, invoked, callerVars>>

\* job() is called: the body of the job the worker holds starts.
Called(w) == [invoked EXCEPT ![cur[w]] = @ + 1]

\* Mutant of Returned: no loop around the body of the thread, which ends
\* after its first job.
ReturnedOnce(w) ==
    /\ wpc' = [wpc EXCEPT ![w] = "dead"]
    /\ cur' = [cur EXCEPT ![w] = 0]

\* job() returned: the loop starts over.
Returned(w) ==
    /\ wpc' = [wpc EXCEPT ![w] = "lock"]
    /\ cur' = [cur EXCEPT ![w] = 0]

\* A body that just computes and returns (pool.rs unit test).
RunPlain(w) ==
    /\ wpc[w] = "run"
    /\ kind[cur[w]] = "plain"
    /\ invoked' = Called(w)
    /\ Returned(w)
    /\ UNCHANGED <<constVars, mainpc, poolVars, recHolders, queue, jobVars,
                   guards, poisoned, deqlog, callerVars>>

\* Mutant of RunPanic: the call is wrapped in catch_unwind, and the loop
\* goes on after a panic.
RunPanicCaught(w) ==
    /\ wpc[w] = "run"
    /\ kind[cur[w]] = "panic"
    /\ invoked' = Called(w)
    /\ Returned(w)
    /\ UNCHANGED <<constVars, mainpc, poolVars, recHolders, queue, jobVars,
                   guards, poisoned, deqlog, callerVars>>

\* A body that panics: nothing catches it, the thread ends.
RunPanic(w) ==
    /\ wpc[w] = "run"
    /\ kind[cur[w]] = "panic"
    /\ invoked' = Called(w)
    /\ Unwind(w)
    /\ UNCHANGED <<constVars, mainpc, poolVars, jobVars, deqlog, callerVars>>

\* A body that never returns.
RunBlock(w) ==
    /\ wpc[w] = "run"
    /\ kind[cur[w]] = "block"
    /\ invoked' = Called(w)
    /\ wpc' = [wpc EXCEPT ![w] = "blocked"]
    /\ UNCHANGED <<constVars, mainpc, poolVars, recHolders, queue, jobVars,
                   guards, poisoned, cur, deqlog, callerVars>>

\* tx.send(1) of the channel example; the caller keeps rx until it has
\* taken n_jobs items, so the send succeeds.
RunChan(w) ==
    /\ wpc[w] = "run"
    /\ kind[cur[w]] = "chan"
    /\ invoked' = Called(w)
    /\ chan' = Append(chan, 1)
    /\ Returned(w)
    /\ UNCHANGED <<constVars, mainpc, poolVars, recHolders, queue, jobVars,
                   guards, poisoned, deqlog, counter, barrierCount, barrierGen,
                   bgen, sum, received>>

\* an_atomic.fetch_add(1, Relaxed) of the Barrier example.
RunBarrier(w) ==
    /\ wpc[w] = "run"
    /\ kind[cur[w]] = "barrier"
    /\ invoked' = Called(w)
    /\ counter' = counter + 1
    /\ wpc' = [wpc EXCEPT ![w] = "bwait"]
    /\ UNCHANGED <<constVars, mainpc, poolVars, recHolders, queue, jobVars,
                   guards, poisoned, cur, deqlog, barrierCount, barrierGen,
                   bgen, chan, sum, received>>

\* Barrier::new(n_jobs + 1)
BarrierSize == njobs + 1

\* Barrier::wait, on arrival: the last of BarrierSize threads starts a new
\* generation and goes on; any other thread blocks until the generation
\* changes.
BarrierLast == barrierCount + 1 = BarrierSize

BarrierArrive(t) ==
    IF BarrierLast
    THEN /\ barrierCount' = 0
         /\ barrierGen' = barrierGen + 1
         /\ UNCHANGED bgen
    ELSE /\ barrierCount' = barrierCount + 1
         /\ bgen' = [bgen EXCEPT ![t] = barrierGen]
         /\ UNCHANGED barrierGen

BarrierOpen(t) == barrierGen # bgen[t]

\* barrier.wait() inside the job body.
JobBarrierWait(w) ==
    /\ wpc[w] = "bwait"
    /\ BarrierArrive(w)
    /\ IF BarrierLast
       THEN Returned(w)
       ELSE /\ wpc' = [wpc EXCEPT ![w] = "bblocked"]
            /\ UNCHANGED cur
    /\ UNCHANGED <<constVars, mainpc, poolVars, recHolders, queue, jobVars,
                   guards, poisoned, deqlog, invoked, counter, chan, sum,
                   received>>

\* The barrier opened: wait returns, and with it the job.
JobBarrierPass(w) ==
    /\ wpc[w] = "bblocked"
    /\ BarrierOpen(w)
    /\ Returned(w)
    /\ UNCHANGED <<constVars, mainpc, poolVars, recHolders, queue, jobVars,
                   guards, poisoned, deqlog, invoked, callerVars>>

WorkerStep(w) ==
    \/ Lock(w)
    \/ RecvOk(w)
    \/ RecvErr(w)
    \/ RunPlain(w)
    \/ RunPanic(w)
    \/ RunBlock(w)
    \/ RunChan(w)
    \/ RunBarrier(w)
    \/ JobBarrierWait(w)
    \/ JobBarrierPass(w)

----------------------------------------------------------------------------
\* The callers: the Barrier example and the channel example.

\* The end of the caller: the pool goes out of scope.
CallerEnds(ok) ==
    /\ mainpc' = IF ok THEN "done" ELSE "assertfailed"
    /\ sender' = FALSE
    /\ workers' = <<>>

\* barrier.wait() of the submitter, after the n_jobs executes.
MainBarrierWait ==
    /\ scenario = "barrier"
    /\ mainpc = "submit"
    /\ nsub = njobs
    /\ BarrierArrive(Main)
    /\ mainpc' = IF BarrierLast THEN "assert" ELSE "bblocked"
    /\ UNCHANGED <<constVars, poolVars, recHolders, queue, jobVars, guards,
                   poisoned, wpc, cur, deqlog, invoked, counter, chan, sum,
                   received>>

MainBarrierPass ==
    /\ mainpc = "bblocked"
    /\ BarrierOpen(Main)
    /\ mainpc' = "assert"
    /\ UNCHANGED <<constVars, poolVars, recHolders, queue, jobVars, guards,
                   poisoned, wpc, cur, deqlog, invoked, callerVars>>

\* assert_eq!(atomic.load(SeqCst), njobs)
MainAssertCounter ==
    /\ mainpc = "assert"
    /\ CallerEnds(counter = njobs)
    /\ UNCHANGED <<constVars, recHolders, queue, jobVars, guards, poisoned,
                   wpc, cur, deqlog, invoked, callerVars>>

\* One item of rx.iter().take(njobs), folded into the sum; next() blocks
\* while the caller's channel is empty.
MainFold ==
    /\ scenario = "channel"
    /\ mainpc = "submit"
    /\ nsub = njobs
    /\ received < njobs
    /\ chan # <<>>
    /\ sum' = sum + Head(chan)
    /\ chan' = Tail(chan)
    /\ received' = received + 1
    /\ UNCHANGED <<constVars, mainpc, poolVars, recHolders, queue, jobVars,
                   guards, poisoned, wpc, cur, deqlog, invoked, counter,
                   barrierCount, barrierGen, bgen>>

\* assert_eq!(fold, njobs), once take(njobs) is exhausted.
MainAssertSum ==
    /\ scenario = "channel"
    /\ mainpc = "submit"
    /\ nsub = njobs
    /\ received = njobs
    /\ CallerEnds(sum = njobs)
    /\ UNCHANGED <<constVars, recHolders, queue, jobVars, guards, poisoned,
                   wpc, cur, deqlog, invoked, callerVars>>

\* The steps of a caller that runs a fixed program.
CallerProgram ==
    \/ MainBarrierWait
    \/ MainBarrierPass
    \/ MainAssertCounter
    \/ MainFold
    \/ MainAssertSum

Submit == \E k \in FreeKinds \cup {"barrier", "chan"} : Execute(k)

Next ==
    \/ NewPush
    \/ NewReturn
    \/ Submit
    \/ DropPool
    \/ CallerProgram
    \/ \E w \in WorkerIds : WorkerStep(w)

Spec == Init /\ [][Next]_vars

\* Every thread that can run does: the operating system schedules each worker
\* thread, and the thread of a caller that runs a fixed program. A free caller
\* may stop submitting at any time. std's Mutex is not fair, so a thread that
\* is only now and then able to lock may lose every race: weak fairness.
FairSpec ==
    /\ Spec
    /\ \A w \in WorkerIds : WF_vars(WorkerStep(w))
    /\ WF_vars(NewPush \/ NewReturn)
    /\ WF_vars(scenario # "free" /\ (Submit \/ CallerProgram))

----------------------------------------------------------------------------
\* Properties

\* The pool exists: new has returned it and it has not been dropped.
PoolAlive == mainpc # "new" /\ sender

\* A worker is inside a job body, or about to enter the one it received.
Executing(w) == wpc[w] \in {"run", "bwait", "bblocked", "blocked"}

\* C1: every submitted job is dequeued by at most one worker and its body is
\* invoked at most once; no two workers hold the same job, and no job is
\* dequeued or invoked that was not submitted.
C1_ExactlyOnce ==
    /\ \A j \in JobIds : invoked[j] <= 1
    /\ \A j \in JobIds : invoked[j] > 0 => j <= nsub
    /\ \A i, k \in 1 .. Len(deqlog) : i # k => deqlog[i] # deqlog[k]
    /\ \A i \in 1 .. Len(deqlog) : deqlog[i] \in 1 .. nsub
    /\ \A w1, w2 \in WorkerIds :
          (w1 # w2 /\ cur[w1] # 0) => cur[w1] # cur[w2]

\* Two workers hold two jobs at once while a third job has already run.
C1_Witness ==
    \E w1, w2 \in WorkerIds :
        /\ w1 # w2
        /\ cur[w1] # 0
        /\ cur[w2] # 0
        /\ \E j \in JobIds : invoked[j] = 1

\* No job up to job j has a body that blocks forever: none never returns, and
\* the barrier jobs are no more than the workers, so their barrier opens.
NoneBlocksForever(j) ==
    \A i \in 1 .. j :
        /\ kind[i] # "block"
        /\ kind[i] = "barrier" => njobs <= size

\* No job up to job j has a body that panics.
NonePanics(j) == \A i \in 1 .. j : kind[i] # "panic"

\* The body of job j has been executed, once. A job stays submitted and stays
\* executed, so "every submitted job is eventually executed" is "again and
\* again, every job submitted so far has been executed".
Served(j) == invoked[j] = 1

MainPassedBarrier == scenario = "barrier" /\ mainpc \in {"assert", "done"}

\* C3: with njobs <= nworkers barrier jobs, the barrier is eventually released,
\* and when the submitter passes it the counter is njobs (its assertion
\* holds).
C3_Barrier ==
    /\ [](MainPassedBarrier /\ njobs <= size => counter = njobs)
    /\ (scenario = "barrier" /\ njobs <= size) ~> (mainpc = "done")

\* The submitter passed a barrier that two or more jobs waited on.
C3_Witness ==
    /\ MainPassedBarrier
    /\ njobs >= 2
    /\ njobs <= size
    /\ counter = njobs
    /\ barrierGen = 1

\* C4: with at least one worker and njobs jobs that each send 1 into the
\* caller's channel, the caller eventually has received njobs values, and
\* their sum is njobs.
C4_Channel ==
    /\ [](scenario = "channel" /\ received = njobs => sum = njobs)
    /\ (scenario = "channel" /\ size >= 1)
          ~> (mainpc = "done" /\ received = njobs /\ sum = njobs)

\* More jobs than workers, and the caller has folded them all.
C4_Witness ==
    /\ scenario = "channel"
    /\ size >= 1
    /\ njobs > size
    /\ mainpc = "done"
    /\ sum = njobs

\* C5: a pool of size 0 accepts every execute without a panic, never
\* executes a job, and keeps the jobs in the queue.
C5_ZeroSize ==
    size = 0 =>
        /\ mainpc # "sendfailed"
        /\ \A j \in JobIds : invoked[j] = 0
        /\ Len(queue) = nsub

\* C6: while the pool is alive the receiving side is held, so the expect of
\* execute never fires.
C6_SendNeverFails ==
    /\ PoolAlive => ReceiverAlive
    /\ mainpc # "sendfailed"

\* C7: every execute on a live pool completes: the job is appended to the
\* queue and the caller goes on, whatever the queue and the workers are at.
C7_NonBlocking ==
    [][Submit => /\ mainpc' = "submit"
                 /\ Len(queue') = Len(queue) + 1]_vars

\* C8: jobs leave the queue in the order execute put them in: the i-th job
\* dequeued is the i-th job submitted.
C8_Fifo == \A i \in 1 .. Len(deqlog) : deqlog[i] = i

\* Two workers have dequeued three jobs between them.
C8_Witness ==
    /\ Len(deqlog) >= 3
    /\ \E w1, w2 \in WorkerIds : w1 # w2 /\ cur[w1] # 0 /\ cur[w2] # 0

\* The worker collection new(size) builds.
ExpectedWorkers == [i \in 1 .. size |-> i - 1]

\* C9: the pool's workers are 0, 1, ..., size-1 in creation order, rendered
\* "workers[] = (id: 0)(id: 1)(id: 2)" for size 3, for as long as the pool
\* lives.
C9_FixedWorkers ==
    PoolAlive =>
        /\ workers = ExpectedWorkers
        /\ size = 3 =>
              PoolToString(workers) = "workers[] = (id: 0)(id: 1)(id: 2)"

\* A pool of three after jobs were submitted and one has run.
C9_Witness ==
    /\ PoolAlive
    /\ size = 3
    /\ nsub >= 2
    /\ \E j \in JobIds : invoked[j] = 1
    /\ PoolToString(workers) = "workers[] = (id: 0)(id: 1)(id: 2)"

\* C10: a worker holds the lock exactly while it is in recv; no worker that
\* runs a job holds it.
C10_LockReleased ==
    /\ \A w \in WorkerIds : Executing(w) => w \notin guards
    /\ \A w \in WorkerIds : w \in guards <=> wpc[w] = "recv"

\* One worker is stuck in a job body and another has dequeued a later job.
C10_Witness ==
    \E w1, w2 \in WorkerIds :
        /\ w1 # w2
        /\ wpc[w1] = "blocked"
        /\ wpc[w2] = "run"
        /\ cur[w2] > cur[w1]

\* The worker threads that have ended, and those that run.
DeadWorkers == {w \in WorkerIds : wpc[w] = "dead"}
LiveWorkers == {w \in WorkerIds : wpc[w] \notin {"unborn", "dead"}}

\* The panicking jobs whose body has been called.
PanicsRun == {j \in JobIds : kind[j] = "panic" /\ invoked[j] >= 1}

\* Worker w is in the body of a panicking job: its next step is the panic.
AboutToPanic(w) == wpc[w] = "run" /\ kind[cur[w]] = "panic"

\* C11 as stated: a worker, once created, is never destroyed, whether the
\* job body it ran returned normally or panicked.
C11_Original ==
    [][\A w \in WorkerIds : w \in LiveWorkers => wpc'[w] # "dead"]_vars

\* C11 (amended): a worker that leaves a job body that returned normally is
\* back at the lock, with no job; a worker, once created, keeps looping and
\* its thread ends only by the panic of a job body it runs.
C11_WorkerCycle ==
    [][\A w \in WorkerIds :
          /\ (Executing(w) /\ ~AboutToPanic(w) /\ wpc'[w] # wpc[w])
                => (Executing(w)' \/ (wpc'[w] = "lock" /\ cur'[w] = 0))
          /\ (w \in LiveWorkers /\ ~AboutToPanic(w)) => wpc'[w] # "dead"
          /\ wpc[w] # "unborn" => wpc'[w] # "unborn"]_vars

\* The only worker has run a job that returned and waits in recv again.
C11_Witness ==
    /\ size = 1
    /\ wpc[0] = "recv"
    /\ \E j \in JobIds : kind[j] = "plain" /\ invoked[j] = 1

\* C12: each panicking job ends the thread of the worker that ran it, for
\* good and without a replacement: after k panics size - k workers are left,
\* while the pool still records size workers and the panic changes nothing
\* on the submitter's side.
C12_PanicDegrades ==
    /\ [](mainpc # "new" =>
            Cardinality(LiveWorkers) = size - Cardinality(PanicsRun))
    /\ [](PoolAlive => workers = ExpectedWorkers)
    /\ [][\A w \in WorkerIds : wpc[w] = "dead" => wpc'[w] = "dead"]_vars
    /\ [][(\E w \in WorkerIds : wpc[w] # "dead" /\ wpc'[w] = "dead")
            => (/\ \E w \in WorkerIds : AboutToPanic(w)
                /\ mainpc' = mainpc
                /\ workers' = workers
                /\ sender' = sender)]_vars

\* Two of three workers are gone after two panics, the third has a job, and
\* the pool still lists three workers.
C12_Witness ==
    /\ size = 3
    /\ PoolAlive
    /\ Cardinality(DeadWorkers) = 2
    /\ Cardinality(PanicsRun) = 2
    /\ Len(workers) = 3
    /\ \E w \in LiveWorkers : cur[w] # 0

\* Every Sender is gone and nothing is buffered: recv returns Err.
Disconnected == ~sender /\ queue = <<>>

\* The workers that hold no job: they contend for the lock or are in recv.
IdleWorkers == {w \in WorkerIds : wpc[w] \in {"lock", "recv"}}

\* C13: on a disconnected queue a worker whose recv fails does not exit: it
\* releases the lock and goes back to lock(); no idle worker ever ends, and
\* as long as there is one, the lock is taken and released again and again.
C13_Livelock ==
    /\ [][\A w \in WorkerIds :
            (Disconnected /\ wpc[w] = "recv" /\ wpc'[w] # "recv")
                => (wpc'[w] = "lock" /\ w \notin guards')]_vars
    /\ [][\A w \in WorkerIds :
            (Disconnected /\ w \in IdleWorkers) => w \in IdleWorkers']_vars
    /\ []<>((Disconnected /\ IdleWorkers # {}) => guards # {})
    /\ []<>((Disconnected /\ IdleWorkers # {}) => guards = {})

\* After the pool was dropped and its jobs were run, a worker is in recv on
\* the disconnected queue while another contends for the lock.
C13_Witness ==
    /\ Disconnected
    /\ mainpc = "dropped"
    /\ Len(deqlog) >= 1
    /\ \E w1, w2 \in WorkerIds :
          w1 # w2 /\ wpc[w1] = "recv" /\ w1 \in guards /\ wpc[w2] = "lock"

\* The workers inside the receive call.
Receiving == {w \in WorkerIds : wpc[w] = "recv"}

\* C14: at most one worker is inside recv, it holds the lock for as long as
\* it is there, and meanwhile no worker waiting at lock() can get past it.
C14_SingleReceiver ==
    /\ Cardinality(Receiving) <= 1
    /\ \A w \in Receiving : guards = {w}
    /\ \A w \in WorkerIds :
          (Receiving # {} /\ wpc[w] = "lock") => ~ENABLED Lock(w)

\* One worker is blocked in recv on the empty queue of a live pool and the
\* other workers wait for the lock.
C14_Witness ==
    /\ PoolAlive
    /\ queue = <<>>
    /\ size >= 3
    /\ \E v \in WorkerIds :
          /\ wpc[v] = "recv"
          /\ v \in guards
          /\ \A w \in LiveWorkers \ {v} : wpc[w] = "lock"

\* The body of job j was called and the call is over (it returned or
\* panicked): no worker holds the job any more.
Finished(j) == invoked[j] >= 1 /\ \A w \in WorkerIds : cur[w] # j

\* C15: completion order is not submission order. Whenever a later job has
\* finished before an earlier one, the earlier one was still dequeued first
\* and is in the hands of a worker that has not finished it; the witness
\* shows that such a state is reached with two workers.
C15_OutOfOrder ==
    \A i, j \in JobIds :
        (i < j /\ j <= nsub /\ Finished(j) /\ ~Finished(i)) =>
            /\ j <= Len(deqlog)
            /\ deqlog[i] = i
            /\ deqlog[j] = j
            /\ \E w \in WorkerIds : cur[w] = i /\ Executing(w)

\* Job 2 has finished while job 1, dequeued before it, is still running on
\* a slower worker; both bodies simply return.
C15_Witness ==
    /\ size >= 2
    /\ kind[1] = "plain"
    /\ kind[2] = "plain"
    /\ Finished(2)
    /\ ~Finished(1)
    /\ deqlog[1] = 1
    /\ \E w \in WorkerIds : cur[w] = 1 /\ wpc[w] = "run"

\* The submitted jobs whose body never returns, and the workers that hold
\* one (in its body or about to enter it).
Blockers == {j \in 1 .. nsub : kind[j] = "block"}
Occupied == {w \in WorkerIds : cur[w] # 0 /\ kind[cur[w]] = "block"}

\* Job j is submitted and its body returns at once or panics at once.
NonBlocking(j) == j <= nsub /\ kind[j] \in {"plain", "chan", "panic"}

\* What C16 says of the blocked workers: a worker in a body that never
\* returns stays there, one worker per such job; and once every worker
\* holds such a job, nothing is dequeued and no body is called any more.
BlockedForGood ==
    /\ [][\A w \in WorkerIds : w \in Occupied => w \in Occupied']_vars
    /\ [](Cardinality(Occupied) =
            Cardinality({j \in Blockers : j \in {cur[w] : w \in WorkerIds}}))
    /\ [][(mainpc # "new" /\ Cardinality(Occupied) >= size) =>
            /\ deqlog' = deqlog
            /\ \A j \in JobIds : kind[j] # "block" => invoked'[j] = invoked[j]
         ]_vars

TooManyBarrierJobs == scenario = "barrier" /\ njobs > size /\ nsub = njobs

\* Every worker and the submitter are blocked in Barrier::wait, and the jobs
\* no worker could take are still queued.
BarrierDeadlock ==
    /\ \A w \in 0 .. (size - 1) : wpc[w] = "bblocked"
    /\ mainpc = "bblocked"
    /\ Len(queue) = njobs - size
    /\ barrierGen = 0

\* C17: once njobs > nworkers barrier jobs are submitted, the barrier is
\* never released, and the system ends up, for good, with all workers and
\* the submitter blocked on it and njobs - nworkers jobs queued.
C17_TooManyJobs ==
    /\ [](TooManyBarrierJobs => barrierGen = 0 /\ mainpc \in {"submit", "bblocked"})
    /\ <>[](TooManyBarrierJobs => BarrierDeadlock)

\* Two workers and three barrier jobs: the deadlock.
C17_Witness ==
    /\ TooManyBarrierJobs
    /\ size >= 2
    /\ BarrierDeadlock
    /\ counter = size

\* The jobs some recv has returned and whose call is not over.
InFlight ==
    {j \in JobIds : (\E i \in 1 .. Len(deqlog) : deqlog[i] = j) /\ ~Finished(j)}

\* The workers that execute a job.
Busy == {w \in WorkerIds : Executing(w)}

\* C18: the jobs in execution are never more than the live workers, which
\* are never more than size, and each worker executes one job at a time:
\* the jobs in execution are the jobs the busy workers hold, one each.
C18_BoundedParallelism ==
    /\ Cardinality(InFlight) <= Cardinality(LiveWorkers)
    /\ Cardinality(LiveWorkers) <= size
    /\ Cardinality(Busy) <= size
    /\ Cardinality(InFlight) = Cardinality(Busy)
    /\ InFlight = {cur[w] : w \in Busy}

\* Every worker of a pool of two or more executes a job and another job
\* waits in the queue.
C18_Witness ==
    /\ size >= 2
    /\ Cardinality(Busy) = size
    /\ Cardinality(InFlight) = size
    /\ queue # <<>>

\* The jobs submitted before job j that take a worker away for good, or may:
\* their body panics, never returns, or waits on the caller's barrier.
Takers(j) ==
    {i \in 1 .. (j - 1) : kind[i] \in {"panic", "block", "barrier"}}

\* Job j is submitted and fewer jobs than there are workers can have taken
\* a worker away before it: a worker is left to run it.
WorkerLeftFor(j) == j <= nsub /\ Cardinality(Takers(j)) < size

\* C19: a panic in a job body never poisons the receiver's mutex nor leaves
\* it held; no worker ever ends at lock() (its expect does not fire), and
\* the jobs for which a worker is left are still dequeued and executed.
C19_NoPoison ==
    /\ [](~poisoned)
    /\ [](\A w \in DeadWorkers : w \notin guards)
    /\ [][\A w \in WorkerIds :
            wpc[w] = "lock" => wpc'[w] \in {"lock", "recv"}]_vars
    /\ []<>(\A j \in JobIds :
              (PanicsRun # {} /\ WorkerLeftFor(j)) => Served(j))

\* A worker has ended in a panic; another one holds the lock, unpoisoned,
\* and is about to receive a job submitted after the panicking one.
C19_Witness ==
    /\ PanicsRun # {}
    /\ DeadWorkers # {}
    /\ ~poisoned
    /\ queue # <<>>
    /\ \A j \in PanicsRun : j < Head(queue)
    /\ \E w \in LiveWorkers : wpc[w] = "recv" /\ guards = {w}

\* C20: after the pool is dropped the jobs still queued are dequeued in
\* FIFO order and executed by the workers that are left; a recv returns Err
\* (the worker goes from recv back to lock) only on an empty queue.
C20_Teardown ==
    /\ [][\A w \in WorkerIds :
            (wpc[w] = "recv" /\ wpc'[w] = "lock")
                => (queue = <<>> /\ ~sender /\ deqlog' = deqlog)]_vars
    /\ [][~sender =>
            (queue' = queue \/ queue' = Tail(queue) \/ ~ReceiverAlive')]_vars
    /\ [](~sender => \A i \in 1 .. Len(deqlog) : deqlog[i] = i)
    /\ []<>(\A j \in JobIds : (~sender /\ WorkerLeftFor(j)) => Served(j))

\* The pool was dropped with two or more jobs queued, and a worker is in
\* recv, about to be given the first of them.
C20_Witness ==
    /\ mainpc = "dropped"
    /\ Len(queue) >= 2
    /\ \E w \in LiveWorkers : wpc[w] = "recv" /\ guards = {w}

====
